---- MODULE Spec2Model ----
(***************************************************************************)
(* Model of the FaceId identification engine: the Person / Photo store,    *)
(* the cosine-similarity matcher, the /identify workflow and the person    *)
(* and photo lifecycle operations (src/app/services, src/app/routes).      *)
(*                                                                         *)
(* Conventions                                                             *)
(*  - Optional[T] is a sequence: <<>> is None, <<x>> is the value x.       *)
(*  - An embedding is [len, v]: a vector of `len` floats whose first two   *)
(*    components are v and whose other components are 0, so dot products   *)
(*    and norms are exact.  np.array([]) is [len |-> 0, v |-> <<0, 0>>].   *)
(*  - A similarity is [n, d2], the real number n / sqrt(d2); d2 = 0 is the *)
(*    NaN that 0/0 yields.  Arithmetic is exact (no float rounding).       *)
(*  - A confidence is an integer number of hundredths.                     *)
(*  - A permanent file persons/<pid>/<unique name> is the pair <<pid, k>>. *)
(*  - Rows get id = max(existing ids) + 1 (SQLite INTEGER PRIMARY KEY).    *)
(*  - Environment failures (a commit, a file operation or the detector     *)
(*    failing for a reason the caller did not cause) are studied one at a  *)
(*    time: a behaviour has at most one, and `faulted` records it.  An     *)
(*    outcome record's cost is the number of failures it takes.            *)
(*  - `call` is a single call of a service function on drawn arguments,    *)
(*    used by the specification FnSpec; Spec leaves it alone.              *)
(***************************************************************************)
EXTENDS Integers, Sequences, FiniteSets, TLC

VARIABLES persons, photos, files, reqs, faulted, call, face, threads

vars == <<persons, photos, files, reqs, faulted, call, face, threads>>

\* ------------------------------------------------------------------ bounds

MaxPersons == 2
MaxPhotos == 2
MaxThreads == 3

\* Request slots; Spec runs slot 1 alone (requests one after the other).
Reqs == {1, 2}

\* ------------------------------------------------------------- constants

EmbeddingSize == 512

Threshold == [n |-> 3, d2 |-> 25]

\* PersonCreate(name=...) of a person created by /identify (transliterated).
Placeholder == <<"N", "e", " ", "z", "a", "d", "a", "n">>

\* What the detector can return for an image: an embedding (its first two
\* components) and a detection score.
Detections ==
    {[v |-> <<1, 0>>, c |-> 90], [v |-> <<1, 1>>, c |-> 50], [v |-> <<3, 4>>, c |-> 90]}

PersonNames == {<<"A", "l", "i", "c", "e">>}

\* person_id form values a caller can send (None, or any integer).
PersonIdInputs == {<<>>, <<0>>, <<1>>}

\* ---------------------------------------------------------------- helpers

None == <<>>

Some(x) == <<x>>

Truthy(o) == o # <<>> /\ o[1] # 0

MaxOf(S) == CHOOSE x \in S : \A y \in S : y <= x

NewId(S) == IF S = {} THEN 1 ELSE MaxOf(S) + 1

Emb(v) == [len |-> EmbeddingSize, v |-> v]

EmptyEmbedding == [len |-> 0, v |-> <<0, 0>>]

Zero == [n |-> 0, d2 |-> 1]

One == [n |-> 1, d2 |-> 1]

\* s > t on reals n/sqrt(d2); any comparison with NaN is false.
SimGT(s, t) ==
    IF s.d2 = 0 \/ t.d2 = 0 THEN FALSE
    ELSE IF s.n >= 0 /\ t.n < 0 THEN TRUE
    ELSE IF s.n <= 0 /\ t.n >= 0 THEN FALSE
    ELSE IF s.n > 0 THEN s.n * s.n * t.d2 > t.n * t.n * s.d2
    ELSE s.n * s.n * t.d2 < t.n * t.n * s.d2

SimGE(s, t) == s.d2 # 0 /\ t.d2 # 0 /\ ~SimGT(t, s)

SimEQ(s, t) == SimGE(s, t) /\ SimGE(t, s)

Dot(a, b) == a[1] * b[1] + a[2] * b[2]

\* ------------------------------------------------- models/person.py

\* IdentificationResult.clamp_values for similarity.
ClampSim(s) ==
    IF SimGT(s, One) THEN One
    ELSE IF SimGT(Zero, s) THEN Zero
    ELSE s

\* IdentificationResult.clamp_values for confidence.
ClampConf(c) == IF c > 100 THEN 100 ELSE IF c < 0 THEN 0 ELSE c

\* The Field constraints, validated before clamp_values runs.
ResultFieldsOk(conf, sim) == conf >= 0 /\ conf <= 100 /\ SimGE(sim, Zero)

\* Variant: the constructor called without is_match (its default is False).
IdentificationResultNoFlag(pid, pname, conf, sim, match, phid) ==
    [person_id |-> pid, person_name |-> pname, confidence |-> ClampConf(conf),
     similarity |-> ClampSim(sim), is_match |-> FALSE, photo_id |-> phid]

IdentificationResult(pid, pname, conf, sim, match, phid) ==
    [person_id |-> pid, person_name |-> pname, confidence |-> ClampConf(conf),
     similarity |-> ClampSim(sim), is_match |-> match, photo_id |-> phid]

DefaultResult == IdentificationResult(None, None, 0, Zero, FALSE, None)

\* ------------------------------------------------ services/face_service.py

\* np.dot raises on vectors of different lengths.
CompareRaises(e1, e2) == e1.len # e2.len

Similarity(e1, e2) ==
    [n |-> Dot(e1.v, e2.v), d2 |-> Dot(e1.v, e1.v) * Dot(e2.v, e2.v)]

\* compare_embeddings: <<is_same, similarity>>.
CompareEmbeddings(e1, e2, threshold) ==
    LET s == Similarity(e1, e2) IN <<SimGT(s, threshold), s>>

\* Variant: the first candidate above the threshold instead of the best one.
FindFirstMatch(target, cands, threshold) ==
    LET above == {i \in 1..Len(cands) :
                     /\ ~CompareRaises(target, cands[i].embedding_vector)
                     /\ CompareEmbeddings(target, cands[i].embedding_vector, threshold)[1]}
    IN IF above = {} THEN None
       ELSE LET i == CHOOSE k \in above : \A j \in above : k <= j
            IN Some([photo_id |-> cands[i].photo_id,
                     similarity |-> CompareEmbeddings(target, cands[i].embedding_vector,
                                                      threshold)[2]])

\* Variant: among equally similar best candidates the last one wins.
FindLastBestMatch(target, cands, threshold) ==
    LET sim(i) == CompareEmbeddings(target, cands[i].embedding_vector, threshold)[2]
        ok == {i \in 1..Len(cands) :
                  /\ ~CompareRaises(target, cands[i].embedding_vector)
                  /\ CompareEmbeddings(target, cands[i].embedding_vector, threshold)[1]
                  /\ SimGT(sim(i), [n |-> 0, d2 |-> 1])}
        best == {i \in ok : \A j \in ok : ~SimGT(sim(j), sim(i))}
    IN IF best = {} THEN None
       ELSE LET i == CHOOSE k \in best : \A j \in best : j <= k
            IN Some([photo_id |-> cands[i].photo_id, similarity |-> sim(i)])

\* Variant: the loop ends at the first candidate whose comparison raises.
RECURSIVE BestMatchUntilRaise(_, _, _, _, _, _)
BestMatchUntilRaise(target, cands, threshold, i, best, bestSim) ==
    IF i > Len(cands) THEN best
    ELSE IF CompareRaises(target, cands[i].embedding_vector) THEN best
    ELSE LET c == CompareEmbeddings(target, cands[i].embedding_vector, threshold)
         IN IF c[1] /\ SimGT(c[2], bestSim)
            THEN BestMatchUntilRaise(target, cands, threshold, i + 1,
                                     Some([photo_id |-> cands[i].photo_id,
                                           similarity |-> c[2]]),
                                     c[2])
            ELSE BestMatchUntilRaise(target, cands, threshold, i + 1, best, bestSim)

RECURSIVE BestMatchFrom(_, _, _, _, _, _)
BestMatchFrom(target, cands, threshold, i, best, bestSim) ==
    IF i > Len(cands) THEN best
    ELSE IF CompareRaises(target, cands[i].embedding_vector)
    THEN BestMatchFrom(target, cands, threshold, i + 1, best, bestSim)
    ELSE LET c == CompareEmbeddings(target, cands[i].embedding_vector, threshold)
         IN IF c[1] /\ SimGT(c[2], bestSim)
            THEN BestMatchFrom(target, cands, threshold, i + 1,
                               Some([photo_id |-> cands[i].photo_id, similarity |-> c[2]]),
                               c[2])
            ELSE BestMatchFrom(target, cands, threshold, i + 1, best, bestSim)

\* find_best_match: None, or Some([photo_id, similarity]).
FindBestMatch(target, cands, threshold) ==
    IF Len(cands) = 0 THEN None
    ELSE BestMatchFrom(target, cands, threshold, 1, None, Zero)

\* ---------------------------------------------------- utils/validators.py

\* A name is the sequence of its characters.  LongRun stands for a run of
\* 254 letters, so that names of 255 and of 256 characters can be written.
LongRun == "a*254"

NameMin == 2

NameMax == 255

CharWidth(c) == IF c = LongRun THEN NameMax - 1 ELSE 1

RECURSIVE Width(_)
Width(name) == IF name = << >> THEN 0 ELSE CharWidth(Head(name)) + Width(Tail(name))

\* The characters [a-zA-Z (Cyrillic letters) 0-9] that are used here.
Alphanumeric == {"A", "N", "a", "c", "d", "e", "i", "l", "n", "z", "1", LongRun}

\* [<>"/\|?*]
Forbidden == {"<", ">", "\"", "/", "\\", "|", "?", "*"}

RECURSIVE StripLeft(_)
StripLeft(name) ==
    IF name # << >> /\ Head(name) = " " THEN StripLeft(Tail(name)) ELSE name

RECURSIVE StripRight(_)
StripRight(name) ==
    IF name # << >> /\ name[Len(name)] = " "
    THEN StripRight(SubSeq(name, 1, Len(name) - 1))
    ELSE name

\* str.strip()
Strip(name) == StripRight(StripLeft(name))

\* Variant: the forbidden characters are not looked for.
ValidateNameAnyCharacter(name) ==
    LET t == Strip(name)
    IN IF name = << >> \/ t = << >> THEN FALSE
       ELSE /\ ~(Width(t) < NameMin)
            /\ ~(Width(t) > NameMax)
            /\ \E k \in 1..Len(t) : t[k] \in Alphanumeric

\* PersonValidator.validate_person_name(name)['is_valid']
ValidatePersonName(name) ==
    LET t == Strip(name)
    IN IF name = << >> \/ t = << >> THEN FALSE
       ELSE /\ ~(Width(t) < NameMin)
            /\ ~(Width(t) > NameMax)
            /\ ~(\E k \in 1..Len(t) : t[k] \in Forbidden)
            /\ \E k \in 1..Len(t) : t[k] \in Alphanumeric

\* PersonBase.name: Field(..., min_length=1, max_length=255), checked by
\* FastAPI before the route runs.
PersonCreateOk(name) == Width(name) >= 1 /\ Width(name) <= NameMax

\* PersonUpdate.name: Optional, Field(None, min_length=1, max_length=255).
PersonUpdateOk(name) == name = None \/ PersonCreateOk(name[1])

\* ------------------------------------------ routes/api.py: handle_api_error

\* handle_api_error: exception class -> error_type of the HTTP response.
HandleApiError(exc) ==
    IF exc \in {"FileValidationError", "ValidationError"} THEN "validation_error"
    ELSE IF exc = "PersonNotFoundError" THEN "not_found"
    ELSE IF exc \in {"FileStorageError", "FaceDetectionError"} THEN "processing_error"
    ELSE "internal_error"

\* ---------------------------------------------- services/person_service.py

RECURSIVE SortedDesc(_)
SortedDesc(S) ==
    IF S = {} THEN <<>>
    ELSE LET m == MaxOf(S) IN <<m>> \o SortedDesc(S \ {m})

RECURSIVE SortedAsc(_)
SortedAsc(S) ==
    IF S = {} THEN <<>>
    ELSE LET m == MaxOf(S) IN Append(SortedAsc(S \ {m}), m)

\* The query of get_all_active_embeddings: Photo JOIN Person, active, with an
\* embedding, newest first (a later row has a larger id).
ActivePhotoIds(P, Ph) ==
    {i \in DOMAIN Ph : Ph[i].person_id \in DOMAIN P /\ Ph[i].is_active}

EmbeddingRow(P, Ph, i) ==
    [photo_id |-> i, person_id |-> Ph[i].person_id,
     person_name |-> P[Ph[i].person_id],
     embedding_vector |-> Ph[i].embedding, confidence |-> Ph[i].confidence]

\* get_all_active_embeddings: rows whose embedding has 512 values.
GetAllActiveEmbeddings(P, Ph) ==
    LET ids == SortedDesc({i \in ActivePhotoIds(P, Ph) : Ph[i].embedding.len = EmbeddingSize})
    IN [k \in 1..Len(ids) |-> EmbeddingRow(P, Ph, ids[k])]

\* The photo ids of the rows of a candidate list, in its order.
PhotoIdsIn(all) == [k \in 1..Len(all) |-> all[k].photo_id]

\* What identify_person returns from its `except Exception` handler.
SwallowedOutcome ==
    [raised |-> FALSE, swallowed |-> TRUE, result |-> DefaultResult,
     embedding |-> EmptyEmbedding, conf |-> None, ncands |-> None,
     cands |-> None]

\* Variant: the result is built without the detection confidence.
IdentifyLosesConfidence(all, emb, conf) ==
    [raised |-> FALSE, swallowed |-> FALSE, result |-> DefaultResult,
     embedding |-> emb, conf |-> Some(conf), ncands |-> Some(Len(all)),
     cands |-> Some(PhotoIdsIn(all))]

\* identify_person once the face was extracted and the candidates retrieved.
IdentifyMatched(all, emb, conf) ==
    LET best == FindBestMatch(emb, all, Threshold)
        nomatch == [raised |-> FALSE, swallowed |-> FALSE,
                    result |-> IdentificationResult(None, None, conf, Zero, FALSE, None),
                    embedding |-> emb, conf |-> Some(conf), ncands |-> Some(Len(all)),
                    cands |-> Some(PhotoIdsIn(all))]
    IN IF ~ResultFieldsOk(conf, Zero) THEN SwallowedOutcome
       ELSE IF Len(all) = 0 \/ best = None THEN nomatch
       ELSE LET b == best[1]
                k == CHOOSE j \in 1..Len(all) : all[j].photo_id = b.photo_id
            IN [raised |-> FALSE, swallowed |-> FALSE,
                result |-> IdentificationResult(Some(all[k].person_id),
                                                Some(all[k].person_name), conf,
                                                b.similarity, TRUE, Some(b.photo_id)),
                embedding |-> emb, conf |-> Some(conf), ncands |-> Some(Len(all)),
                cands |-> Some(PhotoIdsIn(all))]

\* identify_person: every outcome of one call on the store (P, Ph).  The
\* detector raises FaceDetectionError (re-raised), fails otherwise (swallowed),
\* or returns a face; the candidate query then fails (DatabaseError, swallowed
\* with the extracted confidence lost) or succeeds.  conf, ncands and cands
\* record the extracted confidence, the number of candidates retrieved and
\* their photo ids in the order retrieved.
IdentifyPersonOutcomes(P, Ph) ==
    {[raised |-> TRUE, swallowed |-> FALSE, result |-> DefaultResult,
      embedding |-> EmptyEmbedding, conf |-> None, ncands |-> None,
      cands |-> None]}
    \cup {SwallowedOutcome}
    \cup {[SwallowedOutcome EXCEPT !.conf = Some(d.c)] : d \in Detections}
    \cup {IdentifyMatched(GetAllActiveEmbeddings(P, Ph), Emb(d.v), d.c) : d \in Detections}

\* ------------------------------------------------------------ requests

\* A request slot: the position of the handler that runs in it (pc), its
\* inputs and locals, the response (status, result), and what the request
\* did to the store so far (created_person, added, saved, temp_written).
IdleReq ==
    [pc |-> "idle", kind |-> "none", person_id |-> None, create_new |-> FALSE,
     temp |-> FALSE, temp_written |-> FALSE,
     arg |-> None, svc |-> SwallowedOutcome, result |-> DefaultResult, target |-> None,
     status |-> "none", created_person |-> None, added |-> None, saved |-> None]

PhotoIdsOf(Ph, pid) == {i \in DOMAIN Ph : Ph[i].person_id = pid}

ReferencedFiles(Ph) == {Ph[i].file_path : i \in DOMAIN Ph}

Restrict(f, S) == [x \in S |-> f[x]]

\* generate_unique_filename: a name no file and no row has (uuid4).
FreshFile(F, Ph, pid) ==
    LET used == {f[2] : f \in {g \in F \cup ReferencedFiles(Ph) : g[1] = pid}}
    IN <<pid, CHOOSE k \in 1..(Cardinality(used) + 1) : k \notin used>>

\* The model stops inserting rows at the bounds: a step that would insert a
\* row whose id exceeds them is not taken.
CanAddPerson(P) == NewId(DOMAIN P) <= MaxPersons

CanAddPhoto(Ph) == NewId(DOMAIN Ph) <= MaxPhotos

\* Threads that use FaceService.
Threads == 1..MaxThreads

\* class FaceService as its body leaves it: _instance = None and a free
\* _lock (0: no holder).  instances counts the objects super().__new__ made;
\* initialized, face_app and loads are the object's _initialized (None: no
\* such attribute yet) and face_app, and the number of times the
\* model-loading body of initialize ran; failed: a load raised.
FaceServiceClass ==
    [instance |-> None, lock |-> 0, instances |-> 0, initialized |-> None,
     face_app |-> None, loads |-> 0, failed |-> FALSE]

\* No service function is being called on its own.
NoCall == [op |-> "none", arg |-> <<>>, done |-> FALSE, ret |-> <<>>]

Init ==
    /\ persons = << >>
    /\ photos = << >>
    /\ files = {}
    /\ reqs = [r \in Reqs |-> IdleReq]
    /\ faulted = FALSE
    /\ call = NoCall
    /\ face = FaceServiceClass
    /\ threads = [t \in Threads |-> "start"]

\* An outcome of a handler step: the slot's next state, the store's next
\* state and the number of environment failures the outcome takes.
Outcome(q, P, Ph, F, cost) ==
    [req |-> q, persons |-> P, photos |-> Ph, files |-> F, cost |-> cost]

Apply(r, o) ==
    /\ o.cost = 0 \/ (o.cost = 1 /\ ~faulted)
    /\ faulted' = (faulted \/ o.cost = 1)
    /\ call' = call
    /\ UNCHANGED <<face, threads>>
    /\ reqs' = [reqs EXCEPT ![r] = o.req]
    /\ persons' = o.persons
    /\ photos' = o.photos
    /\ files' = o.files

\* file_service.delete_file(path) on an existing file: <<file is left, cost>>.
\* unlink succeeds, or raises and delete_file returns False.
DeleteFileOutcomes(exists) ==
    IF exists THEN {<<FALSE, 0>>, <<TRUE, 1>>} ELSE {<<FALSE, 0>>}

\* The request ends with an exception `exc` (None: with `result`): the
\* `finally` of /identify deletes the temporary file, handle_api_error maps
\* the exception.
Finished(q, exc, result, P, Ph, F, cost) ==
    {Outcome([q EXCEPT !.pc = "done",
                       !.status = IF exc = None THEN "ok" ELSE HandleApiError(exc[1]),
                       !.result = IF exc = None THEN result ELSE DefaultResult,
                       !.temp = d[1]],
             P, Ph, F, cost + d[2]) : d \in DeleteFileOutcomes(q.temp)}

\* ------------------------------------------- routes/api.py: POST /identify

\* /identify up to the temporary file.  validate_upload_request refuses the
\* request; or save_uploaded_file(temp=True) cannot create the file; or it
\* writes the bytes and refuses the image (and deletes the file again, when
\* delete_file succeeds); or it writes the bytes and get_file_hash raises
\* (nothing deletes the file); or the file is saved.
SaveTempOutcomes(q, P, Ph, F) ==
    LET ended(exc, left) == [q EXCEPT !.pc = "done", !.status = HandleApiError(exc),
                                      !.temp = left]
        written(x) == [x EXCEPT !.temp_written = TRUE]
    IN {Outcome(ended("ValidationError", FALSE), P, Ph, F, 0),
        Outcome(ended("FileStorageError", FALSE), P, Ph, F, 1),
        Outcome(written(ended("FileStorageError", TRUE)), P, Ph, F, 1),
        Outcome(written([q EXCEPT !.pc = "identify", !.temp = TRUE]), P, Ph, F, 0)}
       \cup {Outcome(written(ended("FileValidationError", d[1])), P, Ph, F, d[2]) :
                d \in DeleteFileOutcomes(TRUE)}

\* The form values person_id and create_new are first read after
\* identify_person returned, and are drawn there.
IdentifyBegin(r) ==
    /\ reqs[r].pc = "idle"
    /\ \E o \in SaveTempOutcomes([IdleReq EXCEPT !.kind = "identify"],
                                 persons, photos, files) : Apply(r, o)

\* Variant: is_duplicate with > 1.0 in place of >= 1.0.
IsDuplicateStrict(res) ==
    res.is_match /\ res.photo_id # None /\ SimGT(res.similarity, One)

\* is_duplicate of the route.
IsDuplicate(res) ==
    res.is_match /\ res.photo_id # None /\ SimGE(res.similarity, One)

\* The route from `if target_person_id:` on, up to the await that saves the
\* permanent file.
AfterTarget(q, target, res, P, Ph, F, cost) ==
    IF Truthy(target) /\ ~IsDuplicate(res)
    THEN {Outcome([q EXCEPT !.pc = "persist", !.target = target, !.result = res],
                  P, Ph, F, cost)}
    ELSE Finished([q EXCEPT !.target = target], None, res, P, Ph, F, cost)

\* person_service.create_person: the row that is committed.
CreatePersonRow(P, name) == P @@ (NewId(DOMAIN P) :> name)

\* `if not result.is_match:` the person data is removed from the result.
StripNoMatch(res) ==
    IF ~res.is_match THEN [res EXCEPT !.person_id = None, !.person_name = None]
    ELSE res

\* Variant: the person_id form value is ignored.
TargetMatchedOnly(res, person_id) == IF res.is_match THEN res.person_id ELSE None

\* target_person_id = result.person_id if result.is_match else person_id
TargetPersonId(res, person_id) == IF res.is_match THEN res.person_id ELSE person_id

\* Variant: a person is created whenever there is no target.
ShouldCreateAlways(create_new, target) == ~Truthy(target)

\* `if create_new and not target_person_id:`
ShouldCreate(create_new, target) == create_new /\ ~Truthy(target)

\* The result returned in place of `res` for the person just created.
NewPersonResult(id, name, res) ==
    IdentificationResult(Some(id), Some(name), res.confidence, One, TRUE, None)

\* The route after person_service.identify_person returned (or raised) `out`.
AfterIdentify(req, out, P, Ph, F) ==
    LET q0 == [req EXCEPT !.svc = out]
        c0 == IF out.swallowed THEN 1 ELSE 0
        res1 == StripNoMatch(out.result)
        target0 == TargetPersonId(res1, req.person_id)
    IN IF out.raised
       THEN Finished(q0, Some("FaceDetectionError"), out.result, P, Ph, F, c0)
       ELSE IF ShouldCreate(req.create_new, target0)
       THEN IF ~CanAddPerson(P) THEN {}
            ELSE Finished(q0, Some("DatabaseError"), res1, P, Ph, F, c0 + 1)
                 \cup
                 LET id == NewId(DOMAIN P)
                 IN AfterTarget([q0 EXCEPT !.created_person = Some(id)], Some(id),
                                NewPersonResult(id, Placeholder, res1),
                                CreatePersonRow(P, Placeholder), Ph, F, c0)
       ELSE AfterTarget(q0, target0, res1, P, Ph, F, c0)

\* identify_person and the rest of the route up to the permanent save.  The
\* form values are not read when identify_person raises.
IdentifyStep(r) ==
    /\ reqs[r].pc = "identify"
    /\ \E out \in IdentifyPersonOutcomes(persons, photos) :
         \E pid \in IF out.raised THEN {None} ELSE PersonIdInputs,
            cn \in IF out.raised THEN {FALSE} ELSE BOOLEAN :
           \E o \in AfterIdentify([reqs[r] EXCEPT !.person_id = pid, !.create_new = cn],
                                  out, persons, photos, files) : Apply(r, o)

\* Variant: only an empty embedding is refused.
AddPhotoUnlessEmpty(Ph, pid, f, emb, conf) ==
    IF emb.len = 0
    THEN {[exc |-> Some("FaceDetectionError"), photos |-> Ph, photo |-> None, cost |-> 0]}
    ELSE LET id == NewId(DOMAIN Ph)
             row == [person_id |-> pid, file_path |-> f, embedding |-> emb,
                     confidence |-> conf, is_active |-> TRUE]
         IN {[exc |-> Some("DatabaseError"), photos |-> Ph, photo |-> None, cost |-> 1],
             [exc |-> None, photos |-> Ph @@ (id :> row),
              photo |-> Some([id |-> id, row |-> row]), cost |-> 0]}

\* add_photo_to_person: the embedding is refused before the database is
\* touched; the commit fails and is rolled back; or the row is inserted (the
\* default SQLite engine does not enforce the foreign key).
AddPhotoOutcomes(Ph, pid, f, emb, conf) ==
    IF emb.len = 0 \/ emb.len # EmbeddingSize
    THEN {[exc |-> Some("FaceDetectionError"), photos |-> Ph, photo |-> None, cost |-> 0]}
    ELSE LET id == NewId(DOMAIN Ph)
             row == [person_id |-> pid, file_path |-> f, embedding |-> emb,
                     confidence |-> conf, is_active |-> TRUE]
         IN {[exc |-> Some("DatabaseError"), photos |-> Ph, photo |-> None, cost |-> 1],
             [exc |-> None, photos |-> Ph @@ (id :> row),
              photo |-> Some([id |-> id, row |-> row]), cost |-> 0]}

\* Variant: the result always names the photo just stored.
ResultWithNewPhoto(res, photo) ==
    IF photo # None THEN [res EXCEPT !.photo_id = Some(photo[1].id)] ELSE res

\* `if result.photo_id is None and photo is not None: result.photo_id = photo.id`
ResultWithPhoto(res, photo) ==
    IF res.photo_id = None /\ photo # None
    THEN [res EXCEPT !.photo_id = Some(photo[1].id)]
    ELSE res

\* The route from the permanent save_uploaded_file to the response: the file
\* cannot be created; it is written and get_file_hash raises; or it is saved
\* and add_photo_to_person runs.
PersistOutcomes(q, P, Ph, F) ==
    LET pid == q.target[1]
        f == FreshFile(F, Ph, pid)
        qs == [q EXCEPT !.saved = Some(f)]
        F2 == F \cup {f}
    IN Finished(q, Some("FileStorageError"), q.result, P, Ph, F, 1)
       \cup Finished(qs, Some("FileStorageError"), q.result, P, Ph, F2, 1)
       \cup UNION {Finished([qs EXCEPT !.added = a.photo], a.exc,
                            ResultWithPhoto(q.result, a.photo),
                            P, a.photos, F2, a.cost) :
                   a \in AddPhotoOutcomes(Ph, pid, f, q.svc.embedding, q.result.confidence)}

IdentifyPersist(r) ==
    /\ reqs[r].pc = "persist"
    /\ CanAddPhoto(photos)
    /\ \E o \in PersistOutcomes(reqs[r], persons, photos, files) : Apply(r, o)

\* The response has been sent; the slot is free again.
Return(r) ==
    /\ reqs[r].pc = "done"
    /\ reqs' = [reqs EXCEPT ![r] = IdleReq]
    /\ UNCHANGED <<persons, photos, files, faulted, call, face, threads>>

\* ------------------------------------- routes/api.py: persons and photos

Ended(q, exc) ==
    [q EXCEPT !.pc = "done",
              !.status = IF exc = None THEN "ok" ELSE HandleApiError(exc[1])]

\* POST /persons with a name that passes validate_person_name: the row is
\* committed, or the commit fails.
CreatePersonOutcomes(q, name, P, Ph, F) ==
    {Outcome(Ended([q EXCEPT !.created_person = Some(NewId(DOMAIN P))], None),
             CreatePersonRow(P, name), Ph, F, 0),
     Outcome(Ended(q, Some("DatabaseError")), P, Ph, F, 1)}

CreatePerson(r, name) ==
    /\ reqs[r].pc = "idle"
    /\ CanAddPerson(persons)
    /\ \E o \in CreatePersonOutcomes([IdleReq EXCEPT !.kind = "create_person"], name,
                                     persons, photos, files) : Apply(r, o)

\* Variant: the Person row is deleted without the cascade to its Photos.
DeletePersonWithoutCascade(q, id, P, Ph, F) ==
    LET ids == SortedAsc(PhotoIdsOf(Ph, id))
        path(k) == Ph[ids[k]].file_path
        unlinked(j) == {path(k) : k \in 1..(j - 1)}
        F1 == F \ unlinked(Len(ids) + 1)
        dir == {f \in F1 : f[1] = id}
        left(kept) == (F1 \ dir) \cup kept
        c(kept) == IF kept = {} THEN 0 ELSE 1
    IN IF id \notin DOMAIN P
       THEN {Outcome(Ended(q, Some("PersonNotFoundError")), P, Ph, F, 0)}
       ELSE {Outcome(Ended(q, Some("DatabaseError")), P, Ph, F \ unlinked(j), 1) :
                j \in {k \in 1..Len(ids) : path(k) \in F}}
            \cup
            UNION {{Outcome(Ended(q, Some("DatabaseError")), P, Ph, left(kept), c(kept) + 1),
                    Outcome(Ended(q, None), Restrict(P, DOMAIN P \ {id}), Ph,
                            left(kept), c(kept))} : kept \in SUBSET dir}

\* DELETE /persons/{person_id}.  An absent person is reported not found.
\* Else delete_person visits the photos in row order; unlink raises at the
\* j-th one whose file exists (the files before it are gone, the transaction
\* is rolled back), or at none.  Then rmtree (ignore_errors=True) removes the
\* person's directory, possibly leaving some of its files, and the commit
\* deletes the Person and, by the ORM cascade, its Photos; or the commit fails.
DeletePersonOutcomes(q, id, P, Ph, F) ==
    LET ids == SortedAsc(PhotoIdsOf(Ph, id))
        path(k) == Ph[ids[k]].file_path
        unlinked(j) == {path(k) : k \in 1..(j - 1)}
        F1 == F \ unlinked(Len(ids) + 1)
        dir == {f \in F1 : f[1] = id}
        left(kept) == (F1 \ dir) \cup kept
        c(kept) == IF kept = {} THEN 0 ELSE 1
    IN IF id \notin DOMAIN P
       THEN {Outcome(Ended(q, Some("PersonNotFoundError")), P, Ph, F, 0)}
       ELSE {Outcome(Ended(q, Some("DatabaseError")), P, Ph, F \ unlinked(j), 1) :
                j \in {k \in 1..Len(ids) : path(k) \in F}}
            \cup
            UNION {{Outcome(Ended(q, Some("DatabaseError")), P, Ph, left(kept), c(kept) + 1),
                    Outcome(Ended(q, None),
                            Restrict(P, DOMAIN P \ {id}),
                            Restrict(Ph, DOMAIN Ph \ PhotoIdsOf(Ph, id)),
                            left(kept), c(kept))} : kept \in SUBSET dir}

DeletePerson(r, id) ==
    /\ reqs[r].pc = "idle"
    /\ \E o \in DeletePersonOutcomes([IdleReq EXCEPT !.kind = "delete_person",
                                                     !.arg = Some(id)],
                                     id, persons, photos, files) : Apply(r, o)

\* DELETE /photos/{photo_id}.  The HTTPException(404) raised for an absent
\* photo is caught by the route's own `except Exception`.  Else delete_photo
\* commits the deletion (or fails), and delete_file removes the file (or
\* fails and returns False).
DeletePhotoOutcomes(q, id, P, Ph, F) ==
    IF id \notin DOMAIN Ph
    THEN {Outcome(Ended(q, Some("HTTPException")), P, Ph, F, 0)}
    ELSE {Outcome(Ended(q, Some("DatabaseError")), P, Ph, F, 1)}
         \cup
         {Outcome(Ended(q, None), P, Restrict(Ph, DOMAIN Ph \ {id}),
                  IF d[1] THEN F ELSE F \ {Ph[id].file_path}, d[2]) :
             d \in DeleteFileOutcomes(Ph[id].file_path \in F)}

DeletePhoto(r, id) ==
    /\ reqs[r].pc = "idle"
    /\ \E o \in DeletePhotoOutcomes([IdleReq EXCEPT !.kind = "delete_photo",
                                                    !.arg = Some(id)],
                                    id, persons, photos, files) : Apply(r, o)

\* A request to deactivate a photo.  PersonService has no method that writes
\* is_active and the router has no route for it: /photos/{photo_id} accepts
\* DELETE only, so the framework answers 405 and no handler runs.
DeactivatePhotoOutcomes(q, id, P, Ph, F) ==
    {Outcome([q EXCEPT !.pc = "done", !.status = "method_not_allowed"], P, Ph, F, 0)}

DeactivatePhoto(r, id) ==
    /\ reqs[r].pc = "idle"
    /\ \E o \in DeactivatePhotoOutcomes([IdleReq EXCEPT !.kind = "deactivate_photo",
                                                        !.arg = Some(id)],
                                        id, persons, photos, files) : Apply(r, o)

\* Names a caller can send: empty, blank, one character, one character when
\* stripped, with a forbidden character, without a letter or digit, of 256
\* characters, of 256 characters of which 255 are left when stripped, of 255
\* characters, and a padded name.
NameInputs ==
    {<< >>, <<" ">>, <<"a">>, <<" ", "a">>, <<"a", "/">>, <<"-", "-">>,
     <<LongRun, "a", "a">>, <<" ", LongRun, "a">>, <<LongRun, "a">>,
     <<" ", "a", "1">>}

\* The request body is refused by FastAPI (422) before the route runs.
RequestRefused(q) == [q EXCEPT !.pc = "done", !.status = "request_validation_error"]

\* POST /persons with any name.
CreatePersonRequestOutcomes(q, name, P, Ph, F) ==
    IF ~PersonCreateOk(name) THEN {Outcome(RequestRefused(q), P, Ph, F, 0)}
    ELSE IF ~ValidatePersonName(name)
    THEN {Outcome(Ended(q, Some("ValidationError")), P, Ph, F, 0)}
    ELSE IF ~CanAddPerson(P) THEN {}
    ELSE CreatePersonOutcomes(q, name, P, Ph, F)

CreatePersonRequest(r, name) ==
    /\ reqs[r].pc = "idle"
    /\ \E o \in CreatePersonRequestOutcomes(
                  [IdleReq EXCEPT !.kind = "create_person", !.arg = Some(name)],
                  name, persons, photos, files) : Apply(r, o)

\* PUT /persons/{id} with a name or without one: the name is validated, then
\* update_person looks the person up, sets the name and commits.
UpdatePersonOutcomes(q, id, name, P, Ph, F) ==
    IF ~PersonUpdateOk(name) THEN {Outcome(RequestRefused(q), P, Ph, F, 0)}
    ELSE IF name # None /\ ~ValidatePersonName(name[1])
    THEN {Outcome(Ended(q, Some("ValidationError")), P, Ph, F, 0)}
    ELSE IF id \notin DOMAIN P
    THEN {Outcome(Ended(q, Some("PersonNotFoundError")), P, Ph, F, 0)}
    ELSE {Outcome(Ended(q, None),
                  IF name = None THEN P ELSE [P EXCEPT ![id] = name[1]], Ph, F, 0),
          Outcome(Ended(q, Some("DatabaseError")), P, Ph, F, 1)}

UpdatePerson(r, id, name) ==
    /\ reqs[r].pc = "idle"
    /\ \E o \in UpdatePersonOutcomes(
                  [IdleReq EXCEPT !.kind = "update_person", !.arg = name,
                                  !.person_id = Some(id)],
                  id, name, persons, photos, files) : Apply(r, o)

\* ------------------------------------------------------------ specification

Step(r) ==
    \/ IdentifyBegin(r)
    \/ IdentifyStep(r)
    \/ IdentifyPersist(r)
    \/ \E name \in PersonNames : CreatePerson(r, name)
    \/ \E id \in 1..MaxPersons : DeletePerson(r, id)
    \/ \E id \in 1..MaxPhotos : DeletePhoto(r, id)
    \/ \E id \in 1..MaxPhotos : DeactivatePhoto(r, id)
    \/ Return(r)

\* Requests one after the other.
Next == Step(1)

Spec == Init /\ [][Next]_vars

\* The operations that create or rename a Person, with any name.
NameStep(r) ==
    \/ \E name \in NameInputs : CreatePersonRequest(r, name)
    \/ \E id \in 1..MaxPersons, name \in {None} \cup {Some(n) : n \in NameInputs} :
          UpdatePerson(r, id, name)
    \/ IdentifyBegin(r)
    \/ IdentifyStep(r)
    \/ IdentifyPersist(r)
    \/ Return(r)

NameNext == NameStep(1)

NameSpec == Init /\ [][NameNext]_vars

\* Two /identify requests under way at once.  The handlers are coroutines of
\* one event loop: a request runs without interruption from one await to the
\* next (the temporary save, the permanent save, the response), and another
\* request may run between two of them.
ConcStep(r) ==
    \/ IdentifyBegin(r)
    \/ IdentifyStep(r)
    \/ IdentifyPersist(r)
    \/ Return(r)

ConcNext == \E r \in Reqs : ConcStep(r)

ConcSpec == Init /\ [][ConcNext]_vars

\* ------------------------------------------ service functions on their own

\* Longest candidate list that is drawn.
MaxCands == 3

\* The first two components of the vectors that are drawn.
FnVectors == {<<1, 0>>, <<1, 1>>, <<3, 4>>, <<-1, 3>>, <<0, 0>>}

\* Arrays passed as embeddings: 512 values, or a vector of another length.
FnEmbeddings == {Emb(v) : v \in FnVectors} \cup {[len |-> 3, v |-> <<1, 0>>]}

\* Target embeddings of find_best_match.
FnTargets == {Emb(<<1, 0>>), Emb(<<1, 1>>), Emb(<<-1, 3>>)}

\* Thresholds: the configured 0.6, and 0.0 and -0.5 (the setting and the
\* parameter are unconstrained floats).
FnThresholds == {Threshold, Zero, [n |-> -1, d2 |-> 4]}

RECURSIVE SeqsUpTo(_, _)
SeqsUpTo(S, n) ==
    IF n = 0 THEN {<<>>}
    ELSE LET T == SeqsUpTo(S, n - 1)
         IN T \cup {Append(t, x) : t \in {u \in T : Len(u) = n - 1}, x \in S}

\* candidates of identify_person: (photo_id, embedding) pairs, newest first.
CandidateList(es) ==
    [k \in 1..Len(es) |-> [photo_id |-> Len(es) - k + 1, embedding_vector |-> es[k]]]

PendingCall(op, arg) == [op |-> op, arg |-> arg, done |-> FALSE, ret |-> <<>>]

FindBestMatchCalls ==
    {PendingCall("find_best_match",
                 [target |-> t, cands |-> CandidateList(es), threshold |-> th]) :
        t \in FnTargets, es \in SeqsUpTo(FnEmbeddings, MaxCands), th \in FnThresholds}

CompareEmbeddingsCalls ==
    {PendingCall("compare_embeddings", [e1 |-> a, e2 |-> b, threshold |-> th]) :
        a \in FnEmbeddings, b \in FnEmbeddings, th \in FnThresholds}

\* add_photo_to_person(db, person_id, filename, file_path, embedding_vector,
\* confidence) with embeddings of length 0, 3, 512 and 513.
AddPhotoLengths == {0, 3, EmbeddingSize, EmbeddingSize + 1}

AddPhotoCalls ==
    {PendingCall("add_photo_to_person",
                 [person_id |-> 1, file_path |-> <<1, 1>>,
                  embedding |-> [len |-> n, v |-> v], confidence |-> c]) :
        n \in AddPhotoLengths, v \in FnVectors, c \in {0, 90}}

\* Photo tables for get_person_stats: up to MaxStatRows rows in the order
\* they were inserted.  created_at is the insertion time in seconds: it
\* never decreases with the id, and rows inserted within one second share it
\* (here rows 1 and 2, rows 3 and 4, ...).  is_active is read as the table
\* stores it: the column holds either value, although no operation of the
\* services writes False to it.
MaxStatRows == 3

StatRowValues == [person_id : {1, 2}, is_active : BOOLEAN, confidence : {50, 90}]

PhotoTables ==
    {[i \in DOMAIN f |-> [person_id |-> f[i].person_id, is_active |-> f[i].is_active,
                          confidence |-> f[i].confidence, created_at |-> (i + 1) \div 2,
                          file_path |-> <<f[i].person_id, i>>]] :
        f \in UNION {[1..n -> StatRowValues] : n \in 0..MaxStatRows}}

RECURSIVE SumConfidence(_, _)
SumConfidence(Ph, ids) ==
    IF ids = << >> THEN 0 ELSE Ph[Head(ids)].confidence + SumConfidence(Ph, Tail(ids))

\* The value get_person_stats returns from its `except Exception` handler.
EmptyStats ==
    [total_photos |-> 0, active_photos |-> 0, avg_confidence |-> [n |-> 0, d |-> 1],
     last_photo_date |-> None, preview_photo |-> None]

\* Variant: the averages and dates are taken over all photos of the person.
GetPersonStatsOverAll(Ph, pid) ==
    LET ps == SortedAsc({i \in DOMAIN Ph : Ph[i].person_id = pid})
        IsActive(i) == Ph[i].is_active
        active == SelectSeq(ps, IsActive)
        first == CHOOSE k \in 1..Len(ps) :
                    /\ \A j \in 1..Len(ps) : Ph[ps[k]].created_at <= Ph[ps[j]].created_at
                    /\ \A j \in 1..(k - 1) : Ph[ps[j]].created_at > Ph[ps[k]].created_at
    IN IF Len(ps) = 0
       THEN [EmptyStats EXCEPT !.total_photos = Len(ps), !.active_photos = Len(active)]
       ELSE [total_photos |-> Len(ps), active_photos |-> Len(active),
             avg_confidence |-> [n |-> SumConfidence(Ph, ps), d |-> Len(ps)],
             last_photo_date |-> Some(MaxOf({Ph[ps[k]].created_at : k \in 1..Len(ps)})),
             preview_photo |-> Some(Ph[ps[first]].file_path)]

\* get_person_stats when the query succeeds.  The query returns the rows in
\* rowid order; the average is the exact quotient n / d; min() keeps the
\* first of the rows with the least created_at.
GetPersonStats(Ph, pid) ==
    LET ps == SortedAsc({i \in DOMAIN Ph : Ph[i].person_id = pid})
        IsActive(i) == Ph[i].is_active
        active == SelectSeq(ps, IsActive)
        first == CHOOSE k \in 1..Len(active) :
                    /\ \A j \in 1..Len(active) :
                          Ph[active[k]].created_at <= Ph[active[j]].created_at
                    /\ \A j \in 1..(k - 1) :
                          Ph[active[j]].created_at > Ph[active[k]].created_at
    IN IF Len(active) = 0
       THEN [EmptyStats EXCEPT !.total_photos = Len(ps), !.active_photos = Len(active)]
       ELSE [total_photos |-> Len(ps), active_photos |-> Len(active),
             avg_confidence |-> [n |-> SumConfidence(Ph, active), d |-> Len(active)],
             last_photo_date |->
                 Some(MaxOf({Ph[active[k]].created_at : k \in 1..Len(active)})),
             preview_photo |-> Some(Ph[active[first]].file_path)]

\* get_person_stats: the query succeeds, or fails and the handler answers.
GetPersonStatsOutcomes(Ph, pid) ==
    {[failed |-> FALSE, stats |-> GetPersonStats(Ph, pid)],
     [failed |-> TRUE, stats |-> EmptyStats]}

GetPersonStatsCalls ==
    {PendingCall("get_person_stats", [photos |-> Ph, person_id |-> pid]) :
        Ph \in PhotoTables, pid \in {1, 2}}

\* IdentificationResult(confidence=c, similarity=s, is_match=m) with raw
\* values below 0, inside [0, 1] and above 1 (confidence in hundredths).
RawConfidences == {-10, 0, 50, 100, 150}

RawSimilarities == {[n |-> -1, d2 |-> 4], Zero, Threshold, One, [n |-> 3, d2 |-> 4]}

IdentificationResultCalls ==
    {PendingCall("IdentificationResult", [confidence |-> c, similarity |-> sim, is_match |-> m]) :
        c \in RawConfidences, sim \in RawSimilarities, m \in BOOLEAN}

FnCalls ==
    FindBestMatchCalls \cup CompareEmbeddingsCalls \cup AddPhotoCalls
        \cup GetPersonStatsCalls \cup IdentificationResultCalls

FnInit ==
    /\ persons = << >>
    /\ photos = << >>
    /\ files = {}
    /\ reqs = [r \in Reqs |-> IdleReq]
    /\ faulted = FALSE
    /\ call \in FnCalls
    /\ face = FaceServiceClass
    /\ threads = [t \in Threads |-> "start"]

\* The pending call of `op` returns `ret`.
Returns(op, ret) ==
    /\ call.op = op /\ ~call.done
    /\ call' = [call EXCEPT !.done = TRUE, !.ret = ret]
    /\ UNCHANGED <<persons, photos, files, reqs, faulted, face, threads>>

FindBestMatchCall ==
    /\ call.op = "find_best_match"
    /\ Returns("find_best_match",
               FindBestMatch(call.arg.target, call.arg.cands, call.arg.threshold))

\* compare_embeddings raises on arrays of different lengths (np.dot).
CompareEmbeddingsCall ==
    /\ call.op = "compare_embeddings"
    /\ Returns("compare_embeddings",
               IF CompareRaises(call.arg.e1, call.arg.e2)
               THEN [raised |-> TRUE, is_same |-> FALSE, similarity |-> Zero]
               ELSE LET c == CompareEmbeddings(call.arg.e1, call.arg.e2, call.arg.threshold)
                    IN [raised |-> FALSE, is_same |-> c[1], similarity |-> c[2]])

AddPhotoCall ==
    /\ call.op = "add_photo_to_person"
    /\ ~call.done
    /\ \E o \in AddPhotoOutcomes(photos, call.arg.person_id, call.arg.file_path,
                                 call.arg.embedding, call.arg.confidence) :
          /\ call' = [call EXCEPT !.done = TRUE,
                                  !.ret = [exc |-> o.exc, photo |-> o.photo]]
          /\ photos' = o.photos
          /\ faulted' = (o.cost = 1)
    /\ UNCHANGED <<persons, files, reqs, face, threads>>

GetPersonStatsCall ==
    /\ call.op = "get_person_stats"
    /\ ~call.done
    /\ \E o \in GetPersonStatsOutcomes(call.arg.photos, call.arg.person_id) :
          /\ call' = [call EXCEPT !.done = TRUE, !.ret = o]
          /\ faulted' = o.failed
    /\ UNCHANGED <<persons, photos, files, reqs, face, threads>>

\* The constructor of IdentificationResult: pydantic checks the Field
\* constraints and raises ValidationError, or runs clamp_values.
IdentificationResultCall ==
    /\ call.op = "IdentificationResult"
    /\ Returns("IdentificationResult",
               IF ResultFieldsOk(call.arg.confidence, call.arg.similarity)
               THEN [raised |-> FALSE,
                     result |-> IdentificationResult(None, None, call.arg.confidence,
                                                     call.arg.similarity,
                                                     call.arg.is_match, None)]
               ELSE [raised |-> TRUE, result |-> DefaultResult])

FnNext ==
    \/ FindBestMatchCall
    \/ CompareEmbeddingsCall
    \/ AddPhotoCall
    \/ GetPersonStatsCall
    \/ IdentificationResultCall

FnSpec == FnInit /\ [][FnNext]_vars

\* ------------------------------- services/face_service.py: FaceService

\* Thread t moves to pc and the class and object state becomes f.
Goto(t, pc, f) ==
    /\ threads' = [threads EXCEPT ![t] = pc]
    /\ face' = f
    /\ UNCHANGED <<persons, photos, files, reqs, faulted, call>>

\* __new__: `if cls._instance is None:` read without the lock.
NewCheck(t) ==
    /\ threads[t] = "start"
    /\ Goto(t, IF face.instance = None THEN "acquire" ELSE "init", face)

\* __new__: `with cls._lock:` is entered when no thread holds the lock.
NewAcquire(t) ==
    /\ threads[t] = "acquire"
    /\ face.lock = 0
    /\ Goto(t, "locked", [face EXCEPT !.lock = t])

\* __new__: the second `if cls._instance is None:` and the assignment of
\* super().__new__(cls), under the lock.
NewCreate(t) ==
    /\ threads[t] = "locked"
    /\ Goto(t, "release",
            IF face.instance = None
            THEN [face EXCEPT !.instance = Some(face.instances + 1),
                              !.instances = face.instances + 1]
            ELSE face)

\* __new__: the `with` block is left and cls._instance returned.
NewRelease(t) ==
    /\ threads[t] = "release"
    /\ Goto(t, "init", [face EXCEPT !.lock = 0])

\* __init__: `if hasattr(self, '_initialized'): return`
InitCheck(t) ==
    /\ threads[t] = "init"
    /\ Goto(t, IF face.initialized # None THEN "ready" ELSE "init_set", face)

\* __init__: self.face_app = None ... self._initialized = False
InitSet(t) ==
    /\ threads[t] = "init_set"
    /\ Goto(t, "ready", [face EXCEPT !.face_app = None, !.initialized = Some(FALSE)])

\* The thread calls initialize() on the object it constructed.
CallInitialize(t) ==
    /\ threads[t] = "ready"
    /\ Goto(t, "initialize", face)

\* get_face_embedding: `if not self._initialized: self.initialize()`
GetFaceEmbeddingCheck(t) ==
    /\ threads[t] = "ready"
    /\ Goto(t, IF face.initialized = Some(TRUE) THEN "finished" ELSE "initialize", face)

\* initialize: `if self._initialized: return`
InitializeCheck(t) ==
    /\ threads[t] = "initialize"
    /\ Goto(t, IF face.initialized = Some(TRUE) THEN "finished" ELSE "loading", face)

\* initialize: the model-loading body, FaceAnalysis(...) and prepare(...);
\* it assigns face_app, or raises and ModelInitializationError is raised.
LoadModel(t) ==
    /\ threads[t] = "loading"
    /\ \/ Goto(t, "loaded", [face EXCEPT !.loads = face.loads + 1,
                                         !.face_app = Some(face.loads + 1)])
       \/ Goto(t, "finished", [face EXCEPT !.loads = face.loads + 1,
                                           !.failed = TRUE])

\* initialize: self._initialized = True
SetInitialized(t) ==
    /\ threads[t] = "loaded"
    /\ Goto(t, "finished", [face EXCEPT !.initialized = Some(TRUE)])

ThreadStep(t) ==
    \/ NewCheck(t)
    \/ NewAcquire(t)
    \/ NewCreate(t)
    \/ NewRelease(t)
    \/ InitCheck(t)
    \/ InitSet(t)
    \/ CallInitialize(t)
    \/ GetFaceEmbeddingCheck(t)
    \/ InitializeCheck(t)
    \/ LoadModel(t)
    \/ SetInitialized(t)

ThreadNext == \E t \in Threads : ThreadStep(t)

\* Threads construct FaceService and initialise it, in any interleaving of
\* their steps.
ThreadSpec == Init /\ [][ThreadNext]_vars

\* -------------------------------------------------------------- properties

\* The rows and the permanent files are left as they are by a step.
StoreUnchanged == persons' = persons /\ photos' = photos /\ files' = files

\* Steps of the /identify request in slot r: it saved (or failed to save) the
\* temporary file; identify_person returned and the route ran on; the route
\* ran from the permanent save to the response.
Began(r) == reqs[r].pc = "idle" /\ reqs'[r].pc # "idle" /\ reqs'[r].kind = "identify"

Identified(r) ==
    reqs[r].pc = "identify" /\ reqs'[r].pc \in {"persist", "done"} /\ ~reqs'[r].svc.raised

Persisted(r) == reqs[r].pc = "persist" /\ reqs'[r].pc = "done"

\* The /identify request in slot r has returned a result.
Returned(r) == reqs[r].pc = "done" /\ reqs[r].kind = "identify" /\ reqs[r].status = "ok"

\* A step adds exactly one Photo row, of person pid, holding emb and conf,
\* together with its file, and changes no other row and no other file.
OneNewPhoto(pid, emb, conf) ==
    \E id \in DOMAIN photos' :
       /\ id \notin DOMAIN photos
       /\ DOMAIN photos' = DOMAIN photos \cup {id}
       /\ \A i \in DOMAIN photos : photos'[i] = photos[i]
       /\ photos'[id].person_id = pid
       /\ photos'[id].embedding = emb
       /\ photos'[id].confidence = conf
       /\ photos'[id].is_active
       /\ photos'[id].file_path \notin files
       /\ files' = files \cup {photos'[id].file_path}

\* C1: delete_person on a Person that owns N photos is all-or-nothing: the
\* request either removes all N files, all N Photo rows and the Person row,
\* or it reports an error and removes no file and no row.
C1_DeletePersonAllOrNothing ==
    [][\A r \in Reqs :
         (/\ reqs[r].pc = "idle" /\ reqs'[r].pc = "done"
          /\ reqs'[r].kind = "delete_person"
          /\ reqs'[r].arg # None /\ reqs'[r].arg[1] \in DOMAIN persons)
         => LET id == reqs'[r].arg[1]
                owned == PhotoIdsOf(photos, id)
                ofiles == {photos[i].file_path : i \in owned}
            IN \/ /\ reqs'[r].status = "ok"
                  /\ id \notin DOMAIN persons'
                  /\ owned \cap DOMAIN photos' = {}
                  /\ ofiles \cap files' = {}
               \/ /\ reqs'[r].status # "ok"
                  /\ StoreUnchanged]_vars

\* C2: once an /identify request that wrote a temporary image file has
\* finished, on whatever exit path, that temporary file no longer exists.
C2_TempFileRemoved ==
    \A r \in Reqs :
       (reqs[r].pc = "done" /\ reqs[r].kind = "identify" /\ reqs[r].temp_written)
       => ~reqs[r].temp

\* C3: when identify_person reports a match (is_match, photo_id set) with
\* similarity >= 1.0, the /identify request ends without the permanent save:
\* no Photo row and no permanent file is created, the rows after the request
\* are the rows before it.
C3_DuplicateNotStored ==
    [][\A r \in Reqs :
         /\ Began(r) => StoreUnchanged
         /\ (/\ Identified(r)
             /\ reqs'[r].svc.result.is_match
             /\ reqs'[r].svc.result.photo_id # None
             /\ SimGE(reqs'[r].svc.result.similarity, One))
            => /\ reqs'[r].pc = "done"
               /\ StoreUnchanged
               /\ reqs'[r].saved = None /\ reqs'[r].added = None]_vars

\* An /identify request returned a match of similarity 1.0 with a stored photo.
C3_Witness ==
    \E r \in Reqs :
       /\ Returned(r)
       /\ reqs[r].svc.result.is_match /\ reqs[r].svc.result.photo_id # None
       /\ SimGE(reqs[r].svc.result.similarity, One)
       /\ reqs[r].svc.result.photo_id[1] \in DOMAIN photos
       /\ reqs[r].result = reqs[r].svc.result

\* A match below similarity 1.0.
SubOneMatch(res) == res.is_match /\ SimGT(One, res.similarity)

\* C4: when /identify finds a match with similarity below 1.0 and returns, it
\* has stored exactly one new Photo, owned by the matched person whatever
\* person_id the caller sent, holding the extracted embedding and detection
\* confidence; the result has is_match, the id and name of the matched
\* person, and the id of the matched photo, not of the new one.
C4_MatchStoresOnePhoto ==
    [][\A r \in Reqs :
         /\ (Identified(r) /\ SubOneMatch(reqs'[r].svc.result))
            => /\ reqs'[r].pc = "persist"
               /\ StoreUnchanged
               /\ reqs'[r].target = reqs'[r].svc.result.person_id
         /\ (Persisted(r) /\ SubOneMatch(reqs[r].svc.result) /\ reqs'[r].status = "ok")
            => LET m == reqs[r].svc.result
               IN /\ persons' = persons
                  /\ m.photo_id # None /\ m.photo_id[1] \in DOMAIN photos
                  /\ m.person_id = Some(photos[m.photo_id[1]].person_id)
                  /\ OneNewPhoto(m.person_id[1], reqs[r].svc.embedding, reqs[r].svc.conf[1])
                  /\ reqs'[r].result.is_match
                  /\ reqs'[r].result.person_id = m.person_id
                  /\ reqs'[r].result.person_name = Some(persons[m.person_id[1]])
                  /\ reqs'[r].result.photo_id = m.photo_id
                  /\ reqs'[r].result.photo_id[1] \in DOMAIN photos]_vars

\* An /identify request that carried the id of another existing person
\* matched below 1.0, stored a photo and returned.
C4_Witness ==
    \E r \in Reqs :
       /\ Returned(r)
       /\ SubOneMatch(reqs[r].svc.result)
       /\ reqs[r].added # None
       /\ reqs[r].person_id # None /\ reqs[r].person_id[1] \in DOMAIN persons
       /\ reqs[r].person_id # reqs[r].svc.result.person_id
       /\ photos[reqs[r].added[1].id].person_id = reqs[r].svc.result.person_id[1]

\* The caller of the request record q sent the id of an existing person.
SuppliedExisting(q, P) == q.person_id # None /\ q.person_id[1] \in DOMAIN P

\* C5: when /identify finds no match and the caller sent the id of an
\* existing person, no Person is created; when the request returns, exactly
\* one new Photo has been attached to that person, and the result claims no
\* match: is_match is false, person_id and person_name are absent.
C5_NoMatchAttachesToSuppliedPerson ==
    [][\A r \in Reqs :
         /\ (/\ Identified(r) /\ ~reqs'[r].svc.result.is_match
             /\ SuppliedExisting(reqs'[r], persons))
            => /\ reqs'[r].pc = "persist"
               /\ StoreUnchanged
               /\ reqs'[r].created_person = None
               /\ reqs'[r].target = reqs'[r].person_id
         /\ (/\ Persisted(r) /\ ~reqs[r].svc.result.is_match
             /\ SuppliedExisting(reqs[r], persons)
             /\ reqs'[r].status = "ok")
            => /\ persons' = persons
               /\ OneNewPhoto(reqs[r].person_id[1], reqs[r].svc.embedding,
                              reqs[r].svc.conf[1])
               /\ ~reqs'[r].result.is_match
               /\ reqs'[r].result.person_id = None
               /\ reqs'[r].result.person_name = None]_vars

\* An /identify request with create_new and the id of an existing person
\* found no match, stored a photo for that person and returned.
C5_Witness ==
    \E r \in Reqs :
       /\ Returned(r)
       /\ ~reqs[r].svc.result.is_match
       /\ SuppliedExisting(reqs[r], persons)
       /\ reqs[r].create_new
       /\ reqs[r].added # None
       /\ photos[reqs[r].added[1].id].person_id = reqs[r].person_id[1]
       /\ reqs[r].result.photo_id = Some(reqs[r].added[1].id)

\* C6: /identify creates a new Person if and only if no match was found, no
\* person_id was supplied and create_new was requested; the request then
\* creates exactly one Person, with the placeholder name, and exactly one
\* Photo owned by it, and returns is_match, similarity 1.0 and the new
\* person's id.  (Stated for requests in which nothing fails.)
C6_CreatesPersonIffRequested ==
    [][\A r \in Reqs :
         /\ (Began(r) \/ Persisted(r)) => persons' = persons
         /\ (Identified(r) /\ ~reqs'[r].svc.swallowed)
            => LET q == reqs'[r]
                   asked == ~q.svc.result.is_match /\ q.person_id = None /\ q.create_new
               IN /\ persons' # persons => asked
                  /\ (asked /\ ~(q.pc = "done" /\ q.status # "ok"))
                     => /\ q.pc = "persist"
                        /\ q.created_person # None
                        /\ q.created_person[1] \notin DOMAIN persons
                        /\ persons' = persons @@ (q.created_person[1] :> Placeholder)
                        /\ q.target = q.created_person
                        /\ photos' = photos /\ files' = files
         /\ (Persisted(r) /\ reqs[r].created_person # None /\ reqs'[r].status = "ok")
            => /\ OneNewPhoto(reqs[r].created_person[1], reqs[r].svc.embedding,
                              reqs[r].svc.conf[1])
               /\ reqs'[r].result.is_match
               /\ SimEQ(reqs'[r].result.similarity, One)
               /\ reqs'[r].result.person_id = reqs[r].created_person]_vars

\* C7: when /identify finds no match, no person_id was supplied and
\* create_new was not requested, the request ends leaving the store as it
\* was: no Person row, no Photo row and no permanent file is created,
\* changed or removed.
C7_NoTargetNothingStored ==
    [][\A r \in Reqs :
         /\ Began(r) => StoreUnchanged
         /\ (/\ Identified(r) /\ ~reqs'[r].svc.result.is_match
             /\ reqs'[r].person_id = None /\ ~reqs'[r].create_new)
            => /\ reqs'[r].pc = "done"
               /\ StoreUnchanged
               /\ reqs'[r].created_person = None
               /\ reqs'[r].saved = None /\ reqs'[r].added = None]_vars

\* An /identify request without person_id and create_new found no match
\* among stored photos and returned.
C7_Witness ==
    \E r \in Reqs :
       /\ Returned(r)
       /\ ~reqs[r].svc.swallowed /\ ~reqs[r].svc.result.is_match
       /\ reqs[r].svc.ncands # None /\ reqs[r].svc.ncands[1] > 0
       /\ reqs[r].person_id = None /\ ~reqs[r].create_new
       /\ reqs[r].result = reqs[r].svc.result

\* C8: in every result /identify returns, is_match = false implies that
\* person_id and person_name are absent, also when photo_id names a newly
\* stored photo.
C8_NoMatchNoPerson ==
    \A r \in Reqs :
       (Returned(r) /\ ~reqs[r].result.is_match)
       => reqs[r].result.person_id = None /\ reqs[r].result.person_name = None

\* /identify returned a non-match that names the photo it stored.
C8_Witness ==
    \E r \in Reqs :
       /\ Returned(r) /\ ~reqs[r].result.is_match
       /\ reqs[r].person_id # None
       /\ reqs[r].added # None
       /\ reqs[r].result.photo_id = Some(reqs[r].added[1].id)

\* C9 as stated: with no active candidate embeddings, every identification
\* query yields is_match = false, similarity 0.0, person_id null and the
\* extracted detection confidence.
C9_EmptyStoreNoMatch ==
    \A r \in Reqs :
       (Returned(r) /\ reqs[r].svc.ncands = Some(0))
       => /\ ~reqs[r].result.is_match
          /\ SimEQ(reqs[r].result.similarity, Zero)
          /\ reqs[r].result.person_id = None
          /\ reqs[r].result.confidence = reqs[r].svc.conf[1]

\* C9: when no active candidate embedding is retrieved, identify_person
\* returns is_match = false, similarity 0.0, person_id null and the extracted
\* detection confidence, and /identify returns these values unless
\* create_new was requested without a non-zero person_id: then it returns
\* is_match = true, similarity 1.0 and the id of the Person it created, with
\* the extracted confidence.
C9_EmptyStoreNoMatchUnlessCreated ==
    \A r \in Reqs :
       (/\ reqs[r].kind = "identify" /\ reqs[r].pc \in {"persist", "done"}
        /\ reqs[r].svc.ncands = Some(0))
       => /\ ~reqs[r].svc.result.is_match
          /\ SimEQ(reqs[r].svc.result.similarity, Zero)
          /\ reqs[r].svc.result.person_id = None
          /\ reqs[r].svc.result.confidence = reqs[r].svc.conf[1]
          /\ Returned(r)
             => /\ reqs[r].result.confidence = reqs[r].svc.conf[1]
                /\ IF reqs[r].create_new /\ ~Truthy(reqs[r].person_id)
                   THEN /\ reqs[r].result.is_match
                        /\ SimEQ(reqs[r].result.similarity, One)
                        /\ reqs[r].created_person # None
                        /\ reqs[r].result.person_id = reqs[r].created_person
                   ELSE /\ ~reqs[r].result.is_match
                        /\ SimEQ(reqs[r].result.similarity, Zero)
                        /\ reqs[r].result.person_id = None

\* /identify without create_new returned for a face extracted with
\* confidence 0.9 while no candidate was stored.
C9_Witness ==
    \E r \in Reqs :
       /\ Returned(r)
       /\ reqs[r].svc.ncands = Some(0)
       /\ ~reqs[r].create_new
       /\ reqs[r].svc.conf = Some(90)
       /\ reqs[r].result.confidence = 90
       /\ ~reqs[r].result.is_match

\* The photos identification compares with: active, of an existing Person,
\* with an embedding of 512 values.
Candidates(P, Ph) ==
    {i \in DOMAIN Ph : /\ Ph[i].is_active
                       /\ Ph[i].person_id \in DOMAIN P
                       /\ Ph[i].embedding.len = EmbeddingSize}

\* C10: whenever identify_person returns is_match = true, photo_id names an
\* active stored photo whose similarity to the query is strictly above the
\* threshold and maximal among all candidates, the returned similarity is
\* that similarity, and person_id and person_name are those of the Person
\* that owns the photo; a query with a stored candidate's own embedding is
\* a match of similarity 1.0.
C10_MatchIsBestActivePhoto ==
    [][\A r \in Reqs :
         Identified(r)
         => LET res == reqs'[r].svc.result
                emb == reqs'[r].svc.embedding
                sim(i) == Similarity(emb, photos[i].embedding)
                cands == Candidates(persons, photos)
            IN /\ res.is_match
                  => /\ res.photo_id # None
                     /\ res.photo_id[1] \in cands
                     /\ SimGT(sim(res.photo_id[1]), Threshold)
                     /\ \A j \in cands : ~SimGT(sim(j), sim(res.photo_id[1]))
                     /\ SimEQ(res.similarity, sim(res.photo_id[1]))
                     /\ res.person_id = Some(photos[res.photo_id[1]].person_id)
                     /\ res.person_name = Some(persons[photos[res.photo_id[1]].person_id])
               /\ (~reqs'[r].svc.swallowed /\ \E j \in cands : photos[j].embedding = emb)
                  => res.is_match /\ SimEQ(res.similarity, One)]_vars

\* identify_person matched the older of two stored photos that are both
\* above the threshold, and the request returned without storing anything.
C10_Witness ==
    \E r \in Reqs :
       /\ Returned(r)
       /\ reqs[r].svc.result.is_match
       /\ reqs[r].added = None
       /\ reqs[r].svc.result.photo_id = Some(1)
       /\ {1, 2} \subseteq Candidates(persons, photos)
       /\ SimGT(Similarity(reqs[r].svc.embedding, photos[2].embedding), Threshold)
       /\ SimGT(Similarity(reqs[r].svc.embedding, photos[1].embedding),
                Similarity(reqs[r].svc.embedding, photos[2].embedding))
       /\ reqs[r].svc.result.person_id = Some(photos[1].person_id)

\* A find_best_match call has returned.
BestMatchReturned == call.op = "find_best_match" /\ call.done

\* Positions of the candidates of the call whose comparison does not raise,
\* their similarity to the target, and those strictly above the threshold.
Comparable ==
    {k \in 1..Len(call.arg.cands) :
        ~CompareRaises(call.arg.target, call.arg.cands[k].embedding_vector)}

SimOf(k) == Similarity(call.arg.target, call.arg.cands[k].embedding_vector)

Above == {k \in Comparable : SimGT(SimOf(k), call.arg.threshold)}

\* The position of the photo a returned match names.
Chosen == CHOOSE k \in 1..Len(call.arg.cands) :
             call.arg.cands[k].photo_id = call.ret[1].photo_id

\* C11: for every target, candidate list and threshold, find_best_match
\* returns none exactly when no candidate has a similarity strictly greater
\* than the threshold, and otherwise returns a candidate above the threshold
\* whose similarity is the maximum over all candidates.
C11_BestMatchIffAboveThreshold ==
    BestMatchReturned
    => /\ (call.ret = None) <=> (Above = {})
       /\ call.ret # None
          => /\ Chosen \in Above
             /\ SimEQ(call.ret[1].similarity, SimOf(Chosen))
             /\ \A j \in Comparable : ~SimGT(SimOf(j), SimOf(Chosen))

CompareReturned == call.op = "compare_embeddings" /\ call.done /\ ~call.ret.raised

ZeroNorm(e) == Dot(e.v, e.v) = 0

IsNaN(s) == s.d2 = 0

\* C13: when compare_embeddings is given a vector of zero norm it returns the
\* similarity 0 with is_same false, and never a NaN similarity.
C13_ZeroNormGivesZero ==
    (CompareReturned /\ (ZeroNorm(call.arg.e1) \/ ZeroNorm(call.arg.e2)))
        => /\ ~IsNaN(call.ret.similarity)
           /\ SimEQ(call.ret.similarity, Zero)
           /\ ~call.ret.is_same


AddPhotoReturns ==
    call.op = "add_photo_to_person" /\ ~call.done /\ call'.done

BadLength(e) == e.len # EmbeddingSize

ActiveWithEmbedding(Ph) ==
    {i \in DOMAIN Ph : Ph[i].is_active /\ Ph[i].embedding.len = EmbeddingSize}

\* C15: get_all_active_embeddings returns exactly the Photos that are active
\* and have an embedding of length 512, most recently created first; no
\* inactive photo and no photo with a missing or malformed embedding is among
\* the identification candidates.
C15_CandidatesAreAllActivePhotos ==
    [][\A r \in Reqs :
         (Identified(r) /\ reqs'[r].svc.cands # None)
            => reqs'[r].svc.cands[1] = SortedDesc(ActiveWithEmbedding(photos))]_vars


\* identify_person found a match for the request in slot r, and the step
\* that stores the new photo ends the request with an error.
MatchThenPersistFails(r) ==
    /\ Persisted(r)
    /\ reqs[r].svc.result.is_match
    /\ reqs'[r].status # "ok"

\* C16: when /identify finds a match and storing the new photo then fails
\* (saving the file, or add_photo_to_person), the caller sees the storage
\* failure and the identification outcome: the response still names the
\* matched person.
C16_FailureKeepsMatch ==
    [][\A r \in Reqs :
         MatchThenPersistFails(r)
            => /\ reqs'[r].status \in {"processing_error", "internal_error"}
               /\ reqs'[r].result.is_match
               /\ reqs'[r].result.person_id = reqs[r].svc.result.person_id]_vars


\* identify_person runs for the request in slot r and the extraction of the
\* face fails: with FaceDetectionError, or with another exception.
ExtractionFails(r) ==
    /\ reqs[r].pc = "identify"
    /\ reqs'[r].pc # "identify"
    /\ \/ reqs'[r].svc.raised
       \/ reqs'[r].svc.swallowed /\ reqs'[r].svc.conf = None

\* C17: when face extraction fails during /identify the identification
\* aborts with a reported FaceDetectionError: no result is returned, and no
\* Person row, Photo row or permanent file is created, whatever person_id
\* and create_new were supplied.
C17_ExtractionFailureAborts ==
    [][\A r \in Reqs :
         ExtractionFails(r)
            => /\ reqs'[r].pc = "done"
               /\ reqs'[r].status = "processing_error"
               /\ persons' = persons
               /\ photos' = photos
               /\ files' = files]_vars


\* DELETE /photos/{id} runs in slot r.
DeletesPhoto(r) ==
    reqs[r].pc = "idle" /\ reqs'[r].pc = "done" /\ reqs'[r].kind = "delete_photo"

\* C18: deleting a photo: for an existing id the Photo row is removed (its
\* stored path is handed to the route, which removes the file) unless the
\* database fails; for an absent id the store is unchanged and the caller
\* is told that the photo was not found, not that the server failed.
C18_AbsentPhotoIsNotFound ==
    [][\A r \in Reqs :
         DeletesPhoto(r) =>
            LET id == reqs'[r].arg[1]
            IN IF id \in DOMAIN photos
               THEN \/ /\ reqs'[r].status = "ok"
                       /\ photos' = Restrict(photos, DOMAIN photos \ {id})
                       /\ persons' = persons
                    \/ /\ reqs'[r].status = "internal_error"
                       /\ StoreUnchanged
               ELSE /\ StoreUnchanged
                    /\ reqs'[r].status = "not_found"]_vars


StatsReturned == call.op = "get_person_stats" /\ call.done /\ ~call.ret.failed

PhotosOfPerson == {i \in DOMAIN call.arg.photos :
                      call.arg.photos[i].person_id = call.arg.person_id}

ActiveOfPerson == {i \in PhotosOfPerson : call.arg.photos[i].is_active}

RECURSIVE ConfidenceSum(_)
ConfidenceSum(S) ==
    IF S = {} THEN 0
    ELSE LET i == CHOOSE x \in S : TRUE
         IN call.arg.photos[i].confidence + ConfidenceSum(S \ {i})

\* C19: get_person_stats never raises.  When its query succeeds,
\* total_photos counts all photos of the person and active_photos the active
\* ones; avg_confidence is the mean confidence of the active photos and
\* last_photo_date their latest creation time; preview_photo is the path of
\* an active photo created no later than any other active one; with no
\* active photo they are 0.0, null and null.
C19_StatsOverActivePhotos ==
    /\ (call.op = "get_person_stats" /\ call.done)
          => call.ret.stats.active_photos <= call.ret.stats.total_photos
    /\ StatsReturned =>
        LET st == call.ret.stats
            Ph == call.arg.photos
        IN /\ st.total_photos = Cardinality(PhotosOfPerson)
           /\ st.active_photos = Cardinality(ActiveOfPerson)
           /\ IF ActiveOfPerson = {}
              THEN /\ st.avg_confidence = [n |-> 0, d |-> 1]
                   /\ st.last_photo_date = None
                   /\ st.preview_photo = None
              ELSE /\ st.avg_confidence.d > 0
                   /\ st.avg_confidence.n * Cardinality(ActiveOfPerson)
                         = ConfidenceSum(ActiveOfPerson) * st.avg_confidence.d
                   /\ \E i \in ActiveOfPerson :
                         /\ st.last_photo_date = Some(Ph[i].created_at)
                         /\ \A j \in ActiveOfPerson : Ph[j].created_at <= Ph[i].created_at
                   /\ \E i \in ActiveOfPerson :
                         /\ st.preview_photo = Some(Ph[i].file_path)
                         /\ \A j \in ActiveOfPerson : Ph[i].created_at <= Ph[j].created_at

\* The person has an inactive photo that is older and of another confidence
\* than the active ones, and a photo of another person is in the table.
C19_Witness ==
    /\ StatsReturned
    /\ Len(call.arg.photos) = 3
    /\ call.arg.photos[1].person_id = call.arg.person_id
    /\ ~call.arg.photos[1].is_active
    /\ call.arg.photos[1].confidence = 50
    /\ call.arg.photos[1].created_at = 1
    /\ call.arg.photos[2].person_id # call.arg.person_id
    /\ call.arg.photos[3].person_id = call.arg.person_id
    /\ call.arg.photos[3].is_active
    /\ call.arg.photos[3].created_at = 2
    /\ call.ret.stats.total_photos = 2
    /\ call.ret.stats.active_photos = 1
    /\ call.ret.stats.avg_confidence = [n |-> 90, d |-> 1]
    /\ call.ret.stats.preview_photo = Some(call.arg.photos[3].file_path)


ResultConstructed == call.op = "IdentificationResult" /\ call.done

\* C20: the confidence and the similarity of every IdentificationResult lie
\* in [0, 1]: a raw value above 1 becomes 1 and a raw value below 0 becomes
\* 0; no raw value is rejected and none is kept out of range.
C20_OutOfRangeIsClamped ==
    ResultConstructed =>
        LET c == call.arg.confidence
            sim == call.arg.similarity
            res == call.ret.result
        IN /\ ~call.ret.raised
           /\ res.confidence = (IF c > 100 THEN 100 ELSE IF c < 0 THEN 0 ELSE c)
           /\ IF SimGT(sim, One) THEN res.similarity = One
              ELSE IF SimGT(Zero, sim) THEN res.similarity = Zero
              ELSE res.similarity = sim


\* The name rule: 2 to 255 characters after trimming, no forbidden
\* character, at least one letter or digit.
NameRule(name) ==
    LET t == Strip(name)
    IN /\ Width(t) \in NameMin..NameMax
       /\ \A k \in 1..Len(t) : t[k] \notin Forbidden
       /\ \E k \in 1..Len(t) : t[k] \in Alphanumeric

\* A request that creates or renames a Person with the name n runs in slot r.
NamesPerson(r, n) ==
    /\ reqs[r].pc = "idle"
    /\ reqs'[r].pc = "done"
    /\ reqs'[r].kind \in {"create_person", "update_person"}
    /\ reqs'[r].arg = Some(n)

\* C21: after any sequence of create person, update person and
\* identification with create_new, every stored Person has a name that
\* satisfies the name rule; a create or update given a name that breaks the
\* rule fails with a validation error and leaves the store unchanged.
C21_StoredNamesAreValid ==
    [][/\ \A id \in DOMAIN persons' : NameRule(persons'[id])
       /\ \A r \in Reqs : \A n \in NameInputs :
             (NamesPerson(r, n) /\ ~NameRule(n))
                => /\ reqs'[r].status \in {"validation_error", "request_validation_error"}
                   /\ StoreUnchanged]_vars

\* A padded name, a name of 255 characters and the placeholder of create_new
\* are stored, one of them by a rename.
C21_Witness ==
    /\ DOMAIN persons = {1, 2}
    /\ persons[1] = <<" ", "a", "1">>
    /\ persons[2] = Placeholder
    /\ reqs[1].pc = "done"
    /\ reqs[1].kind = "update_person"
    /\ reqs[1].status = "ok"
    /\ reqs[1].arg = Some(<<" ", "a", "1">>)


\* DELETE /persons/{id} runs in slot r.
DeletesPerson(r, id) ==
    /\ reqs[r].pc = "idle"
    /\ reqs'[r].pc = "done"
    /\ reqs'[r].kind = "delete_person"
    /\ reqs'[r].arg = Some(id)

\* C22: after a successful delete_person(id) no Photo row of that person
\* remains and none of its photos is an identification candidate, while the
\* other Person rows, their Photo rows and their files are unchanged;
\* delete_person on an absent id changes nothing and reports not found.
C22_DeletePersonRemovesItsPhotos ==
    [][\A r \in Reqs : \A id \in 1..MaxPersons :
         DeletesPerson(r, id) =>
            IF id \in DOMAIN persons
            THEN reqs'[r].status = "ok" =>
                    /\ PhotoIdsOf(photos', id) = {}
                    /\ \A k \in 1..Len(GetAllActiveEmbeddings(persons', photos')) :
                          GetAllActiveEmbeddings(persons', photos')[k].photo_id
                              \notin PhotoIdsOf(photos, id)
                    /\ persons' = Restrict(persons, DOMAIN persons \ {id})
                    /\ photos' = Restrict(photos, DOMAIN photos \ PhotoIdsOf(photos, id))
                    /\ files' \subseteq files
                    /\ \A i \in DOMAIN photos' : photos'[i].file_path \in files
                                                     => photos'[i].file_path \in files'
                    /\ \A f \in files : f[1] # id => f \in files'
            ELSE /\ reqs'[r].status = "not_found"
                 /\ StoreUnchanged]_vars

\* Person 1, who had a photo, has been deleted; person 2 and its photo and
\* file are still there.
C22_Witness ==
    /\ reqs[1].pc = "done"
    /\ reqs[1].kind = "delete_person"
    /\ reqs[1].arg = Some(1)
    /\ reqs[1].status = "ok"
    /\ DOMAIN persons = {2}
    /\ DOMAIN photos = {2}
    /\ photos[2].person_id = 2
    /\ photos[2].file_path \in files


\* The /identify request in slot r has ended in an error.
IdentifyFailed(r) ==
    reqs[r].pc = "done" /\ reqs[r].kind = "identify" /\ reqs[r].status # "ok"

\* C23: when /identify (its create_new path included) ends in an error, the
\* Person and Photo rows are as before the request: no Photo row of the
\* request is left, and a Person it created does not remain.  (Stated for
\* requests whose identification itself did not fail.)
C23_FailedRequestLeavesNoRows ==
    \A r \in Reqs :
       (IdentifyFailed(r) /\ ~reqs[r].svc.swallowed)
          => /\ reqs[r].created_person # None
                   => reqs[r].created_person[1] \notin DOMAIN persons
             /\ reqs[r].added # None => reqs[r].added[1].id \notin DOMAIN photos


\* identify_person runs for the request in slot r, the face is extracted and
\* the retrieval of the candidates fails (DatabaseError).
CandidateQueryFails(r) ==
    /\ reqs[r].pc = "identify"
    /\ reqs'[r].pc # "identify"
    /\ reqs'[r].svc.swallowed
    /\ reqs'[r].svc.conf # None

\* C24: a database failure during identification reaches the caller as a
\* processing failure: the request ends with an error, not with a non-match
\* result, and no Person and no Photo is created.
C24_DatabaseFailureIsReported ==
    [][\A r \in Reqs :
         CandidateQueryFails(r)
            => /\ reqs'[r].pc = "done"
               /\ reqs'[r].status \in {"processing_error", "internal_error"}
               /\ persons' = persons
               /\ photos' = photos]_vars


\* A request to deactivate the photo id runs in slot r.
DeactivatesPhoto(r, id) ==
    /\ reqs[r].pc = "idle"
    /\ reqs'[r].pc = "done"
    /\ reqs'[r].kind = "deactivate_photo"
    /\ reqs'[r].arg = Some(id)

\* C25: the program offers a deactivation of a photo: for an existing photo
\* it sets is_active to false (the row stays stored and leaves the candidate
\* set; nothing changes when it was inactive already), and for an absent id
\* it reports not found.
C25_DeactivateClearsIsActive ==
    [][\A r \in Reqs : \A id \in 1..MaxPhotos :
         DeactivatesPhoto(r, id) =>
            IF id \in DOMAIN photos
            THEN /\ reqs'[r].status = "ok"
                 /\ photos' = [photos EXCEPT ![id].is_active = FALSE]
                 /\ persons' = persons
                 /\ files' = files
                 /\ \A k \in 1..Len(GetAllActiveEmbeddings(persons', photos')) :
                       GetAllActiveEmbeddings(persons', photos')[k].photo_id # id
            ELSE /\ reqs'[r].status = "not_found"
                 /\ StoreUnchanged]_vars


\* The candidates of the call whose comparison with the target does not raise.
WithoutRaising ==
    LET Compares(c) == ~CompareRaises(call.arg.target, c.embedding_vector)
    IN SelectSeq(call.arg.cands, Compares)

\* C26: a candidate whose comparison raises is skipped and the search goes
\* on: find_best_match returns what it returns on the candidate list
\* without that candidate.
C26_RaisingCandidateIsSkipped ==
    BestMatchReturned
       => call.ret = FindBestMatch(call.arg.target, WithoutRaising, call.arg.threshold)

\* The second of three candidates raises and the third one is the match.
C26_Witness ==
    /\ BestMatchReturned
    /\ Len(call.arg.cands) = 3
    /\ CompareRaises(call.arg.target, call.arg.cands[2].embedding_vector)
    /\ call.ret # None
    /\ call.ret[1].photo_id = call.arg.cands[3].photo_id


\* C27: referential integrity: in every reachable state the person_id of
\* every Photo row refers to an existing Person row.
C27_PhotosReferToPersons ==
    \A i \in DOMAIN photos : photos[i].person_id \in DOMAIN persons


\* C28: no permanent image file is orphaned: when no request is under way,
\* every file of the persons/ area is referenced by a Photo row.
C28_NoOrphanFile ==
    (\A r \in Reqs : reqs[r].pc \in {"idle", "done"})
       => files \subseteq ReferencedFiles(photos)

\* C29: two /identify requests with create_new for the same face, neither of
\* which met a failure, do not both create a Person.
C29_OnePersonPerFace ==
    \A r1, r2 \in Reqs :
       (/\ r1 # r2
        /\ ~faulted
        /\ Returned(r1) /\ Returned(r2)
        /\ reqs[r1].create_new /\ reqs[r2].create_new
        /\ reqs[r1].svc.embedding = reqs[r2].svc.embedding
        /\ reqs[r1].created_person # None)
       => reqs[r2].created_person = None

\* C30: while no load of the model has failed, at most one FaceService object
\* has been made and the model-loading body of initialize has run at most once.
C30_ModelLoadedOnce ==
    ~face.failed => (face.instances <= 1 /\ face.loads <= 1)

========================================================================
